---- MODULE Spec2Model ----
(***************************************************************************)
(* Model of tensorflow/compiler/xla/tools/driver.cc: the shape model, the  *)
(* buffer-assignment parser, the buffer table, the typed generator and the *)
(* typed printer, and main() that runs them in order.                      *)
(*                                                                         *)
(* A std::string is a sequence of one-character strings.  A function that  *)
(* can end the process returns a record [st, val, msg, log]:               *)
(*   st = "ok"        it returned val                                      *)
(*   st = "exit"      ExitWithMsg(msg): msg on the error stream, exit(1)   *)
(*   st = "terminate" an exception (named by msg) left main: std::terminate*)
(* and log holds the messages it handed to Log, in order.                  *)
(***************************************************************************)
EXTENDS Integers, Sequences, FiniteSets

VARIABLES
  run,        \* run[v]: the state of the process started with VERBOSE set (v = TRUE) or unset (v = FALSE), on the same file
  nread,      \* lines of the file consumed so far
  accepted,   \* the lines that passed the header match and the order check, in order
  n_markers,  \* output markers seen on allocation lines so far
  alloc_idx,  \* the index tokens of the allocation lines read so far, in order
  text,       \* shape driver: the shape text under test
  fn,         \* shape driver: "none", "array" or "tuple", the parser applied
  parsed,     \* shape driver: the parser's result
  formatted   \* shape driver: the formatter's result

vars == <<run, nread, accepted, n_markers, alloc_idx, text, fn, parsed, formatted>>

\* F applied to v: v is computed once and named by F's parameter.
With(v, F(_)) == F(v)

(* ------------------------------ strings -------------------------------- *)

Digits == <<"0", "1", "2", "3", "4", "5", "6", "7", "8", "9">>

IsDigit(c) == \E i \in 1..10 : Digits[i] = c

DigitVal(c) == (CHOOSE i \in 1..10 : Digits[i] = c) - 1

IntMax == 2147483647

\* s.find(c): the first position of c in s (1-based), 0 for npos.
Find(s, c) ==
  IF \E i \in 1..Len(s) : s[i] = c
  THEN CHOOSE i \in 1..Len(s) : s[i] = c /\ \A j \in 1..(i - 1) : s[j] # c
  ELSE 0

\* The tokens std::getline(stream, tok, d) yields until the stream fails:
\* an empty stream yields none, and a trailing delimiter yields no empty token.
RECURSIVE GetLines(_, _)
GetLines(s, d) ==
  IF s = <<>> THEN <<>>
  ELSE LET k == Find(s, d) IN
       IF k = 0 THEN <<s>>
       ELSE <<SubSeq(s, 1, k - 1)>> \o GetLines(SubSeq(s, k + 1, Len(s)), d)

\* The digits at the front of s, read as strtol does: <<-value, count, over>>.
\* The value is kept negated, so that INT_MIN's digits fit; over says that
\* the digits name a value below INT_MIN.
RECURSIVE DigitRun(_, _, _, _)
DigitRun(s, acc, n, over) ==
  IF s = <<>> \/ ~IsDigit(Head(s)) THEN <<acc, n, over>>
  ELSE LET d    == DigitVal(Head(s))
           fits == ~over /\ (acc > 0 - (IntMax \div 10)
                             \/ (acc = 0 - (IntMax \div 10) /\ d <= (IntMax % 10) + 1))
       IN  DigitRun(Tail(s), IF fits THEN acc * 10 - d ELSE acc, n + 1, ~fits)

RECURSIVE SkipSpaces(_)
SkipSpaces(s) == IF s # <<>> /\ Head(s) = " " THEN SkipSpaces(Tail(s)) ELSE s

\* std::stoi(s): leading blanks, an optional sign, then digits; what follows
\* the digits is ignored.  No digit: std::invalid_argument; a value that is
\* no int: std::out_of_range.
StoI(s) ==
  With(SkipSpaces(s), LAMBDA t :
    With(t # <<>> /\ Head(t) = "-", LAMBDA neg :
      With(DigitRun(IF t # <<>> /\ Head(t) \in {"-", "+"} THEN Tail(t) ELSE t, 0, 0, FALSE),
           LAMBDA r :
        IF r[2] = 0 THEN [ok |-> FALSE, val |-> 0, what |-> "std::invalid_argument"]
        ELSE IF r[3] \/ (~neg /\ r[1] < 0 - IntMax)
             THEN [ok |-> FALSE, val |-> 0, what |-> "std::out_of_range"]
        ELSE [ok |-> TRUE, val |-> IF neg THEN r[1] ELSE 0 - r[1], what |-> ""])))

RECURSIVE NatToString(_)
NatToString(n) ==
  IF n < 10 THEN <<Digits[n + 1]>>
  ELSE NatToString(n \div 10) \o <<Digits[(n % 10) + 1]>>

\* std::to_string(int)
IntToString(n) ==
  IF n >= 0 THEN NatToString(n)
  ELSE <<"-">> \o (IF n < 0 - IntMax
                   THEN NatToString(IntMax \div 10) \o <<Digits[(IntMax % 10) + 2]>>
                   ELSE NatToString(0 - n))

\* a / b as C++ divides ints: the quotient truncated towards zero (b # 0).
CDiv(a, b) ==
  IF (a >= 0) = (b > 0)
  THEN (IF a >= 0 THEN a ELSE 0 - a) \div (IF b > 0 THEN b ELSE 0 - b)
  ELSE 0 - ((IF a >= 0 THEN a ELSE 0 - a) \div (IF b > 0 THEN b ELSE 0 - b))

(* ------------------------------ results -------------------------------- *)

R(st, val, msg, log) == [st |-> st, val |-> val, msg |-> msg, log |-> log]

\* st = "crash": a read outside an object faulted, or an int was divided by zero.
Ok(val, log) == R("ok", val, <<>>, log)

\* ExitWithMsg(msg), lines 62-65, and a failed Check(cond, msg), lines 67-71.
ExitWithMsg(msg, log) == R("exit", <<>>, msg, log)

Terminate(what, log) == R("terminate", <<>>, <<what, <<>>>>, log)

Crash(log) == R("crash", <<>>, <<>>, log)

\* What a read past the end of an object does in one step of the program: it
\* faults (crash), or it yields the bytes that lie there, read as a string (str).
GarbageStrings == {<<"?">>, <<"x", "3", "2">>}

UBOutcomes ==
  {[crash |-> TRUE, str |-> <<>>]} \cup {[crash |-> FALSE, str |-> g] : g \in GarbageStrings}

(* ---------------------------- Shape Model ------------------------------ *)

S16 == 0
S32 == 1
S64 == 2
U8 == 3
U16 == 4
U32 == 5
U64 == 6
F16 == 7
BF16 == 8
F32 == 9
F64 == 10
C64 == 11
C128 == 12

primitive_strings ==
  << <<"s", "1", "6">>, <<"s", "3", "2">>, <<"s", "6", "4">>, <<"u", "8">>,
     <<"u", "1", "6">>, <<"u", "3", "2">>, <<"u", "6", "4">>, <<"f", "1", "6">>,
     <<"b", "f", "1", "6">>, <<"f", "3", "2">>, <<"f", "6", "4">>, <<"c", "6", "4">>,
     <<"c", "1", "2", "8">> >>

\* primitive_strings()[type]; the vector has 13 entries, and an index past them
\* reads outside it.
ToString(type, ub) ==
  IF type \in 0..(Len(primitive_strings) - 1) THEN Ok(primitive_strings[type + 1], <<>>)
  ELSE IF ub.crash THEN Crash(<<>>)
  ELSE Ok(ub.str, <<>>)

\* std::distance(begin, std::find(begin, end, s)): the index of s, or the
\* vector's size when s is not in it.
PrimitiveTypeFromString(s) ==
  IF \E i \in 1..Len(primitive_strings) : primitive_strings[i] = s
  THEN (CHOOSE i \in 1..Len(primitive_strings) : primitive_strings[i] = s) - 1
  ELSE Len(primitive_strings)

ByteSize(type, ub) ==
  With(ToString(type, ub), LAMBDA s :
    IF s.st # "ok" THEN s
    ELSE IF Len(s.val) < 1 THEN Terminate("std::out_of_range", <<>>)
    ELSE With(StoI(Tail(s.val)), LAMBDA n :
           IF ~n.ok THEN Terminate(n.what, <<>>)
           ELSE Ok(CDiv(n.val, 8), <<>>)))

\* The dimensions set apart by ", ", as the elements of a tuple are: not what
\* ArrayShapeToString writes, and the round trip of C9 tells the two apart.
RECURSIVE JoinDimsSpaced(_)
JoinDimsSpaced(dims) ==
  IF dims = <<>> THEN <<>>
  ELSE IF Len(dims) = 1 THEN IntToString(dims[1])
  ELSE IntToString(dims[1]) \o <<",", " ">> \o JoinDimsSpaced(Tail(dims))

\* The loop of lines 132-137.
RECURSIVE JoinDims(_)
JoinDims(dims) ==
  IF dims = <<>> THEN <<>>
  ELSE IF Len(dims) = 1 THEN IntToString(dims[1])
  ELSE IntToString(dims[1]) \o <<",">> \o JoinDims(Tail(dims))

ArrayShapeToString(shape, ub) ==
  With(ToString(shape.type, ub), LAMBDA t :
    IF t.st # "ok" THEN t
    ELSE Ok(t.val \o <<"[">> \o JoinDims(shape.dimensions) \o <<"]">>, <<>>))

\* The loop of lines 155-157: std::stoi of each token, up to the first throw.
RECURSIVE StoIAll(_, _)
StoIAll(toks, out) ==
  IF toks = <<>> THEN [ok |-> TRUE, val |-> out, what |-> ""]
  ELSE With(StoI(Head(toks)), LAMBDA n :
         IF ~n.ok THEN [ok |-> FALSE, val |-> out, what |-> n.what]
         ELSE StoIAll(Tail(toks), Append(out, n.val)))

\* std::regex_match(s, "([^\\[]+)\\[(.*)\\]"): <<matched, type, dims>>.
ShapeRegexMatch(s) ==
  With(Find(s, "["), LAMBDA i :
    IF i >= 2 /\ Len(s) > i /\ s[Len(s)] = "]"
    THEN <<TRUE, SubSeq(s, 1, i - 1), SubSeq(s, i + 1, Len(s) - 1)>>
    ELSE <<FALSE, <<>>, <<>>>>)

ArrayShapeFromString(s) ==
  With(<< <<"Array shape from string: ", s>> >>, LAMBDA log :
    IF Find(s, "(") # 0 THEN ExitWithMsg(<<"Tuple shape is not supported", <<>>>>, log)
    ELSE With(ShapeRegexMatch(s), LAMBDA m :
      IF ~m[1] THEN ExitWithMsg(<<"Shape not found", <<>>>>, log)
      ELSE With(PrimitiveTypeFromString(m[2]), LAMBDA ptype :
             With(StoIAll(GetLines(m[3], ","), <<>>), LAMBDA d :
               IF ~d.ok THEN Terminate(d.what, log)
               ELSE Ok([type |-> ptype, dimensions |-> d.val], log)))))

\* The loop of lines 171-176 over the substrings between blanks.  An empty
\* substring is indexed at size() - 1, outside it.
RECURSIVE ParseSubshapes(_, _, _, _)
ParseSubshapes(subs, out, log, ub) ==
  IF subs = <<>> THEN Ok([elements |-> out], log)
  ELSE With(Head(subs), LAMBDA sub :
         IF sub = <<>> /\ ub.crash THEN Crash(log)
         ELSE With(ArrayShapeFromString(IF sub # <<>> /\ sub[Len(sub)] = ","
                                        THEN SubSeq(sub, 1, Len(sub) - 1) ELSE sub),
                   LAMBDA r :
                IF r.st # "ok" THEN R(r.st, <<>>, r.msg, log \o r.log)
                ELSE ParseSubshapes(Tail(subs), Append(out, r.val), log \o r.log, ub)))

TupleShapeFromString(s, ub) ==
  With(<< <<"Tuple shape from string: ", s>> >>, LAMBDA log :
    IF s = <<>> \/ s[1] # "("
    THEN With(ArrayShapeFromString(s), LAMBDA r :
           IF r.st # "ok" THEN R(r.st, <<>>, r.msg, log \o r.log)
           ELSE Ok([elements |-> <<r.val>>], log \o r.log))
    ELSE ParseSubshapes(GetLines(SubSeq(s, 2, Len(s) - 1), " "), <<>>, log, ub))

RECURSIVE JoinShapes(_, _)
JoinShapes(elements, ub) ==
  IF elements = <<>> THEN Ok(<<>>, <<>>)
  ELSE With(ArrayShapeToString(elements[1], ub), LAMBDA a :
         IF a.st # "ok" THEN a
         ELSE IF Len(elements) = 1 THEN a
         ELSE With(JoinShapes(Tail(elements), ub), LAMBDA rest :
                IF rest.st # "ok" THEN rest
                ELSE Ok(a.val \o <<",", " ">> \o rest.val, <<>>)))

TupleShapeToString(shape, ub) ==
  IF Len(shape.elements) = 1 THEN ArrayShapeToString(shape.elements[1], ub)
  ELSE With(JoinShapes(shape.elements, ub), LAMBDA j :
         IF j.st # "ok" THEN j
         ELSE Ok(<<"(">> \o j.val \o <<")">>, <<>>))

(* ------------------------- process and streams ------------------------- *)

\* Log(msg), lines 75-79: msgs reach the error stream when VERBOSE is set.
Log(st, v, msgs) == IF v THEN [st EXCEPT !.cerr = @ \o msgs] ELSE st

\* The process ends as the result r says: the messages r logged on the way,
\* then ExitWithMsg's message, or std::terminate's.
Stop(st, v, r) ==
  With(Log(st, v, r.log), LAMBDA s :
  CASE r.st = "exit" -> [s EXCEPT !.pc = "exit", !.cerr = @ \o <<r.msg>>]
    [] r.st = "terminate" ->
         [s EXCEPT !.pc = "terminate",
                   !.cerr = @ \o << <<"terminate called after throwing an instance of ",
                                      <<r.msg[1]>>>> >>]
    [] OTHER -> [s EXCEPT !.pc = "crash"])

(* -------------------------- Assignment Parser -------------------------- *)

\* BufferAssignment(), lines 197-209, and the locals of main.
InitialRun ==
  [ pc           |-> "parse",
    buffers_size |-> <<>>,
    buffers_shape|-> <<>>,      \* std::map<int, TupleShape>: a function on its keys
    params_idx   |-> <<>>,
    output_idx   |-> -1,
    table        |-> <<>>,      \* BufferTable: one block per buffer, [size, data]
    param_pos    |-> 1,         \* position of the loop of line 446 in params_idx
    fills        |-> <<>>,      \* every call of FillIntT / FillFloatT: [index, shape, count, width]
    launched     |-> FALSE,     \* EntryModule has been called
    cout         |-> <<>>,
    cerr         |-> <<>> ]

\* f[k] = v of a std::map.
MapPut(f, k, v) == [i \in (DOMAIN f) \cup {k} |-> IF i = k THEN v ELSE f[i]]

\* std::regex_search(line, "allocation ([0-9]): .+, size ([0-9]+), (.+)"):
\* the index group is one digit.
AllocationLineMatch(line) ==
  /\ line.kind = "alloc"
  /\ Len(line.idx) = 1 /\ IsDigit(line.idx[1])
  /\ Len(line.size) >= 1 /\ \A i \in 1..Len(line.size) : IsDigit(line.size[i])

\* Lines 266-273.
ParseHeader(st, line, v) ==
  With(Log(st, v, << <<"Matched allocation description: ", line.idx>> >>), LAMBDA s1 :
    With(StoI(line.idx), LAMBDA idx :
      IF ~idx.ok THEN Stop(s1, v, Terminate(idx.what, <<>>))
      ELSE With(StoI(line.size), LAMBDA size :
        IF ~size.ok THEN Stop(s1, v, Terminate(size.what, <<>>))
        ELSE With(Log(s1, v, << <<"Allocation size = ", IntToString(size.val)>> >>), LAMBDA s2 :
          IF idx.val # Len(s2.buffers_size)
          THEN Stop(s2, v, ExitWithMsg(<<"Unordered allocations in input", <<>>>>, <<>>))
          ELSE [s2 EXCEPT !.buffers_size = Append(@, size.val)]))))

\* Lines 283-285 and 296-298: the shape of a marker is parsed, stored at
\* index, formatted and logged.
StoreShape(st, shape_text, index, what, v, ub) ==
  With(TupleShapeFromString(shape_text, ub), LAMBDA shape :
    IF shape.st # "ok" THEN Stop(st, v, shape)
    ELSE With(Log([st EXCEPT !.buffers_shape = MapPut(@, index, shape.val)], v, shape.log),
              LAMBDA s1 :
           With(TupleShapeToString(shape.val, ub), LAMBDA str :
             IF str.st # "ok" THEN Stop(s1, v, str)
             ELSE Log(s1, v, << <<what, str.val>> >>))))

\* Lines 275-286.
ParseOutput(st, line, allocation_idx, v, ub) ==
  IF line.out = <<>> THEN st
  ELSE With(Log(st, v, << <<"Matched out parameter: ", line.out>> >>), LAMBDA s1 :
         IF s1.output_idx # -1
         THEN Stop(s1, v, ExitWithMsg(<<"Multiple out-parameters", <<>>>>, <<>>))
         ELSE With(Log([s1 EXCEPT !.output_idx = allocation_idx], v,
                       << <<"output shape = ", line.out>> >>), LAMBDA s2 :
                StoreShape(s2, line.out, s2.output_idx, "parsed output shape = ", v, ub)))

\* Lines 288-299.
ParseParameter(st, line, allocation_idx, v, ub) ==
  IF line.pidx = <<>> \/ line.pshape = <<>> THEN st
  ELSE With(Log(st, v, << <<"Matched parameter description: ", line.pshape>> >>), LAMBDA s1 :
         With(StoI(line.pidx), LAMBDA param_idx :
           IF ~param_idx.ok THEN Stop(s1, v, Terminate(param_idx.what, <<>>))
           ELSE StoreShape([s1 EXCEPT !.params_idx = Append(@, param_idx.val)], line.pshape,
                           allocation_idx, "parsed parameter shape = ", v, ub)))

\* F continues from st unless the process has ended there.
Then(st, F(_)) == IF st.pc \in {"exit", "terminate", "crash"} THEN st ELSE F(st)

\* One turn of the loop of lines 262-301.
ParseLine(st, line, v, ub) ==
  IF ~AllocationLineMatch(line) THEN st
  ELSE With(StoI(line.idx).val, LAMBDA allocation_idx :
         Then(ParseHeader(st, line, v), LAMBDA a :
           Then(ParseOutput(a, line, allocation_idx, v, ub), LAMBDA b :
             ParseParameter(b, line, allocation_idx, v, ub))))

\* Lines 302-303, at the end of the file.
ParseReturn(st, v) ==
  IF st.output_idx = -1
  THEN Stop(st, v, ExitWithMsg(<<"Output not set", <<>>>>, <<>>))
  ELSE [st EXCEPT !.pc = "table"]

(* ----------------------------- Buffer Table ---------------------------- *)

\* BufferTable(assignment), lines 214-222: one malloc per size, in order.
BufferTable(st) ==
  [st EXCEPT !.table = [i \in 1..Len(st.buffers_size) |->
                          [size |-> st.buffers_size[i], data |-> <<"malloc">>]],
             !.pc = "fill"]

(* --------------------------- Typed Generator --------------------------- *)

\* x * y for 0 <= x, y < 2^16, as <<high 16 bits, low 16 bits>>.
Mul16(x, y) ==
  LET p1  == x * (y % 256)
      p2  == x * (y \div 256)
      low == p1 + (p2 % 256) * 256
  IN  <<((low \div 65536) + (p2 \div 256)) % 65536, low % 65536>>

\* a * b in a 32-bit int: the low 32 bits of the product, two's complement.
MulInt(a, b) ==
  LET al == a % 65536
      ah == (a \div 65536) % 65536
      bl == b % 65536
      bh == (b \div 65536) % 65536
      ll == Mul16(al, bl)
      hi == (ll[1] + Mul16(ah, bl)[2] + Mul16(al, bh)[2]) % 65536
  IN  IF hi >= 32768 THEN (hi - 65536) * 65536 + ll[2] ELSE hi * 65536 + ll[2]

RECURSIVE Product(_, _)
Product(dims, acc) ==
  IF dims = <<>> THEN acc ELSE Product(Tail(dims), MulInt(acc, Head(dims)))

GetNumElements(shape) == Product(shape.dimensions, 1)

Unsupported == {F16, BF16, C64, C128}

\* sizeof(T) of the T that the switches of Fill and Display pick for a type.
SizeOfT(type) ==
  CASE type = S16 -> 2 [] type = S32 -> 4 [] type = S64 -> 8
    [] type = U8 -> 1  [] type = U16 -> 2 [] type = U32 -> 4 [] type = U64 -> 8
    [] type = F32 -> 4 [] type = F64 -> 8
    [] OTHER -> 0

\* Fill(buffer, shape), lines 335-365.  val = <<count, width>>: FillIntT or
\* FillFloatT writes casted[0 .. count-1], each of width bytes; val = <<>>: no
\* case of the switch is taken and nothing is written.
Fill(shape, ub) ==
  With(GetNumElements(shape), LAMBDA num_elements :
    With(<< <<"Number of elements = ", IntToString(num_elements)>> >>, LAMBDA log1 :
      With(ToString(shape.type, ub), LAMBDA name :
        IF name.st # "ok" THEN R(name.st, <<>>, name.msg, log1)
        ELSE With(log1 \o << <<"Shape type = ", name.val>> >>, LAMBDA log :
               IF shape.type \in Unsupported
               THEN ExitWithMsg(<<"Unsupported type: ", name.val>>, log)
               ELSE IF SizeOfT(shape.type) = 0 THEN Ok(<<>>, log)
               ELSE Ok(<<num_elements, SizeOfT(shape.type)>>, log)))))

(* ---------------------------- Typed Printer ---------------------------- *)

\* Display(buffer, ArrayShape), lines 382-410, with DisplayT: what is printed.
DisplayArray(data, shape, ub) ==
  IF shape.type \in Unsupported
  THEN ExitWithMsg(<<"Unsupported type: ", ToString(shape.type, ub).val>>, <<>>)
  ELSE IF SizeOfT(shape.type) = 0 THEN Ok(<<>>, <<>>)
  ELSE Ok(<< <<"values", <<shape.type, GetNumElements(shape)>>, data>> >>, <<>>)

\* The loop of lines 418-424: val is what was printed when the loop ended or
\* the process exited.
RECURSIVE DisplayElements(_, _, _, _, _)
DisplayElements(data, elements, tuple_idx, printed, ub) ==
  IF tuple_idx > Len(elements) THEN Ok(printed, <<>>)
  ELSE With(DisplayArray(<<"element", tuple_idx - 1, data>>, elements[tuple_idx], ub), LAMBDA d :
         IF d.st # "ok" THEN R(d.st, printed, d.msg, <<>>)
         ELSE DisplayElements(data, elements, tuple_idx + 1,
                              printed \o d.val
                                \o (IF tuple_idx # Len(elements) THEN << <<", ">> >> ELSE <<>>),
                              ub))

\* Display(buffer, TupleShape), lines 412-426.
DisplayTuple(data, shape, ub) ==
  IF Len(shape.elements) = 1 THEN DisplayArray(data, shape.elements[1], ub)
  ELSE With(DisplayElements(data, shape.elements, 1, << <<"(">> >>, ub), LAMBDA d :
         IF d.st # "ok" THEN d
         ELSE Ok(d.val \o << <<")">> >>, <<>>))

(* --------------------------------- main -------------------------------- *)

\* std::map::operator[]: the entry at k, made empty when there is none.
MapGet(f, k) == IF k \in DOMAIN f THEN f[k] ELSE [elements |-> <<>>]

\* What lies at table.AsPtr()[index].
BlockData(table, index) ==
  IF index + 1 \in DOMAIN table THEN table[index + 1].data ELSE <<"outside the table">>

\* A Check that lets through a shape of more elements than the block holds:
\* not the Check of main, and the bound of C10 tells the two apart.
NumElementsAtLeast(shape, size, byte_size) ==
  GetNumElements(shape) >= CDiv(size, byte_size)

\* The Check of lines 450-452.
NumElementsCheck(shape, size, byte_size) ==
  GetNumElements(shape) = CDiv(size, byte_size)

\* Line 453, Fill(table.AsPtr()[param_idx], shape), and lines 455-459.
FillAndShow(st, param_idx, shape, v, ub) ==
  With(Fill(shape, ub), LAMBDA f :
    IF f.st # "ok" THEN Stop(st, v, f)
    ELSE
      With(f.val # <<>>, LAMBDA called :
        With(Log([st EXCEPT
                    !.fills = IF called
                              THEN Append(@, [index |-> param_idx, shape |-> shape,
                                              count |-> f.val[1], width |-> f.val[2]])
                              ELSE @,
                    !.table = IF called /\ f.val[1] > 0 /\ param_idx + 1 \in DOMAIN st.table
                              THEN [@ EXCEPT ![param_idx + 1].data = <<"Fill", shape>>]
                              ELSE @],
                 v, f.log), LAMBDA s2 :
          IF ~v THEN s2
          ELSE With([s2 EXCEPT !.cout = @ \o << <<"Filled parameter buffer for param ",
                                                    param_idx>> >>], LAMBDA s3 :
                 With(DisplayArray(BlockData(s3.table, param_idx), shape, ub), LAMBDA d :
                   IF d.st # "ok" THEN Stop(s3, v, d)
                   ELSE [s3 EXCEPT !.cout = @ \o d.val])))))

\* Lines 449-452, for the one array shape of a parameter.
CheckSize(st, param_idx, shape, v, ub) ==
  With(ByteSize(shape.type, ub), LAMBDA bs :
    IF bs.st # "ok" THEN Stop(st, v, bs)
    ELSE IF bs.val = 0 THEN Stop(st, v, Crash(<<>>))
    ELSE IF param_idx + 1 \notin DOMAIN st.buffers_size THEN Stop(st, v, Crash(<<>>))
    ELSE IF ~NumElementsCheck(shape, st.buffers_size[param_idx + 1], bs.val)
    THEN Stop(st, v, ExitWithMsg(<<"Unexpected number of elements", <<>>>>, <<>>))
    ELSE st)

\* The Check of line 448.
IsArrayParameter(tuple_shape) == Len(tuple_shape.elements) = 1

\* One turn of the loop of lines 446-460, for params_idx[param_pos].
FillParameter(st, v, ub) ==
  With(st.params_idx[st.param_pos], LAMBDA param_idx :
    With(MapGet(st.buffers_shape, param_idx), LAMBDA tuple_shape :
      With([st EXCEPT !.buffers_shape = MapPut(@, param_idx, tuple_shape)], LAMBDA s1 :
        IF ~IsArrayParameter(tuple_shape)
        THEN Stop(s1, v, ExitWithMsg(<<"Parameters can not be tuples", <<>>>>, <<>>))
        ELSE Then(CheckSize(s1, param_idx, tuple_shape.elements[1], v, ub), LAMBDA s2 :
               Then(FillAndShow(s2, param_idx, tuple_shape.elements[1], v, ub), LAMBDA s3 :
                 [s3 EXCEPT !.param_pos = @ + 1])))))

\* What EntryModule may leave in the output buffer.
EntryResults == {"r1", "r2"}

\* Lines 462-466: EntryModule writes the output buffer in place.
Launch(st, v, result) ==
  With(Log(st, v, << <<"Launching module", <<>>>> >>), LAMBDA s1 :
    [s1 EXCEPT !.launched = TRUE,
               !.table[s1.output_idx + 1].data = <<"EntryModule", result>>,
               !.pc = "display"])

\* Lines 468-472.
DisplayOutput(st, v, ub) ==
  With([st EXCEPT !.cout = @ \o << <<"Output:">> >>], LAMBDA s1 :
    With(MapGet(s1.buffers_shape, s1.output_idx), LAMBDA shape :
      With(TupleShapeToString(shape, ub), LAMBDA str :
        IF str.st # "ok" THEN Stop(s1, v, str)
        ELSE With(Log(s1, v, << <<"Output shape: ", str.val>> >>), LAMBDA s2 :
               With(DisplayTuple(s2.table[s2.output_idx + 1].data, shape, ub), LAMBDA d :
                 With([s2 EXCEPT !.cout = @ \o d.val], LAMBDA s3 :
                   IF d.st # "ok" THEN Stop(s3, v, d)
                   ELSE [s3 EXCEPT !.pc = "done"]))))))

(* ------------------------------ the input ------------------------------ *)

MaxLines == 2

Tok(type) == primitive_strings[type + 1]

\* The text TYPE[D1,...,DN] of a type token and dimension tokens.
RECURSIVE JoinTokens(_)
JoinTokens(toks) ==
  IF toks = <<>> THEN <<>>
  ELSE IF Len(toks) = 1 THEN toks[1]
  ELSE toks[1] \o <<",">> \o JoinTokens(Tail(toks))

MkArray(type_tok, dim_toks) == type_tok \o <<"[">> \o JoinTokens(dim_toks) \o <<"]">>

MkTuple2(a, b) == <<"(">> \o a \o <<",", " ">> \o b \o <<")">>

One == << <<"1">> >>

\* The allocation indices a file may name: those a file of MaxLines lines can
\* reach, the next one, and one of two digits.
IndexTokens == {IntToString(i) : i \in 0..MaxLines} \cup {<<"1", "0">>}

F32x1 == MkArray(Tok(F32), One)

\* <<size, parameter number, shape>> of the parameter markers.
ParameterChoices ==
  { << <<"4">>, <<"0">>, F32x1 >>,
    << <<"5">>, <<"0">>, F32x1 >>,
    << <<"4">>, <<"0">>, MkArray(Tok(F32), << <<"2">> >>) >>,
    << <<"4">>, <<"1">>, F32x1 >>,
    << <<"5">>, <<"1">>, MkArray(Tok(U8), << <<"5">> >>) >>,
    << <<"2">>, <<"0">>, MkArray(Tok(BF16), One) >>,
    << <<"2">>, <<"0">>, MkArray(Tok(F16), One) >>,
    << <<"8">>, <<"0">>, MkArray(Tok(C64), One) >>,
    << <<"1", "6">>, <<"0">>, MkArray(Tok(C128), One) >>,
    << <<"8">>, <<"0">>, MkTuple2(F32x1, F32x1) >>,
    << <<"4">>, <<"0">>, MkArray(<<"x", "9">>, One) >>,
    << <<"0">>, <<"0">>,
       MkArray(Tok(S16), << <<"6", "5", "5", "3", "6">>, <<"6", "5", "5", "3", "6">> >>) >>,
    << <<"4">>, <<"0">>, Tok(F32) >> }

\* <<size, shape>> of the output markers.
OutputChoices ==
  { << <<"4">>, F32x1 >>,
    << <<"1", "6">>, MkTuple2(F32x1, MkArray(Tok(U8), << <<"5">> >>)) >>,
    << <<"8">>, MkArray(Tok(C64), One) >> }

AllocLine(i, size, out, pidx, pshape) ==
  [kind |-> "alloc", idx |-> i, size |-> size, out |-> out, pidx |-> pidx, pshape |-> pshape]

\* A line of the file: an allocation line with its index, its size and its
\* markers (out, pidx and pshape are empty when the marker is absent), or a
\* line of another form ("value: ...").
Lines ==
  { AllocLine(i, p[1], <<>>, p[2], p[3]) : i \in IndexTokens, p \in ParameterChoices }
  \cup { AllocLine(i, o[1], o[2], <<>>, <<>>) : i \in IndexTokens, o \in OutputChoices }
  \cup { AllocLine(i, p[1], F32x1, p[2], p[3]) : i \in IndexTokens, p \in ParameterChoices }
  \cup { AllocLine(i, <<"4">>, <<>>, <<>>, <<>>) : i \in IndexTokens }
  \cup { [kind |-> "other", idx |-> <<>>, size |-> <<>>, out |-> <<>>, pidx |-> <<>>,
          pshape |-> <<>>] }

(* ----------------------------- the program ----------------------------- *)

Init ==
  /\ run = [v \in BOOLEAN |-> InitialRun]
  /\ nread = 0
  /\ accepted = <<>>
  /\ n_markers = 0
  /\ alloc_idx = <<>>
  /\ text = <<>>
  /\ fn = "off"
  /\ parsed = <<>>
  /\ formatted = <<>>

shape_vars == <<text, fn, parsed, formatted>>

\* std::getline yields the next line of the file (line 262).
ReadLine ==
  /\ run[FALSE].pc = "parse"
  /\ nread < MaxLines
  /\ \E line \in Lines, ub \in UBOutcomes :
       /\ run' = [v \in BOOLEAN |-> ParseLine(run[v], line, v, ub)]
       /\ accepted' = IF Len(run'[FALSE].buffers_size) > Len(run[FALSE].buffers_size)
                      THEN Append(accepted, line) ELSE accepted
       /\ n_markers' = IF line.kind = "alloc" /\ line.out # <<>>
                       THEN n_markers + 1 ELSE n_markers
       /\ alloc_idx' = IF line.kind = "alloc" THEN Append(alloc_idx, line.idx) ELSE alloc_idx
  /\ nread' = nread + 1
  /\ UNCHANGED shape_vars

\* std::getline fails at the end of the file; ParseBufferAssignment returns.
EndOfFile ==
  /\ run[FALSE].pc = "parse"
  /\ run' = [v \in BOOLEAN |-> ParseReturn(run[v], v)]
  /\ UNCHANGED <<nread, accepted, n_markers, alloc_idx, shape_vars>>

ConstructTable ==
  /\ run[FALSE].pc = "table"
  /\ run' = [v \in BOOLEAN |-> BufferTable(run[v])]
  /\ UNCHANGED <<nread, accepted, n_markers, alloc_idx, shape_vars>>

FillNext ==
  /\ run[FALSE].pc = "fill"
  /\ run[FALSE].param_pos <= Len(run[FALSE].params_idx)
  /\ \E ub \in UBOutcomes : run' = [v \in BOOLEAN |-> FillParameter(run[v], v, ub)]
  /\ UNCHANGED <<nread, accepted, n_markers, alloc_idx, shape_vars>>

LaunchModule ==
  /\ run[FALSE].pc = "fill"
  /\ run[FALSE].param_pos > Len(run[FALSE].params_idx)
  /\ \E result \in EntryResults : run' = [v \in BOOLEAN |-> Launch(run[v], v, result)]
  /\ UNCHANGED <<nread, accepted, n_markers, alloc_idx, shape_vars>>

PrintOutput ==
  /\ run[FALSE].pc = "display"
  /\ \E ub \in UBOutcomes : run' = [v \in BOOLEAN |-> DisplayOutput(run[v], v, ub)]
  /\ UNCHANGED <<nread, accepted, n_markers, alloc_idx, shape_vars>>

Next == ReadLine \/ EndOfFile \/ ConstructTable \/ FillNext \/ LaunchModule \/ PrintOutput

Spec == Init /\ [][Next]_vars

(* --------------------------- the shape driver -------------------------- *)

MaxDims == 2

TypeTokens == {primitive_strings[i] : i \in 1..Len(primitive_strings)} \cup {<<"x", "9">>, <<"f", "3">>}

DimTokens ==
  { <<"0">>, <<"7">>, <<"1", "0">>, <<"0", "1">>,
    <<"2", "1", "4", "7", "4", "8", "3", "6", "4", "8">>,
    <<"x">>, <<>>, <<"-", "1">>, <<"2", "x">> }

SeqsUpTo(S, n) == UNION {[1..k -> S] : k \in 0..n}

ArrayTexts == {MkArray(ty, ds) : ty \in TypeTokens, ds \in SeqsUpTo(DimTokens, MaxDims)}

\* Array texts with a bracket or the type missing, or with text after "]".
BrokenTexts ==
  UNION { { ty \o <<"[">> \o JoinTokens(ds),
            ty \o JoinTokens(ds) \o <<"]">>,
            <<"[">> \o JoinTokens(ds) \o <<"]">>,
            MkArray(ty, ds) \o <<"x">>,
            ty } :
          ty \in {Tok(F32), Tok(U8)}, ds \in SeqsUpTo({<<"7">>, <<"0", "1">>}, MaxDims) }

TupleElements ==
  { MkArray(ty, ds) : ty \in {Tok(F32), Tok(C128), <<"x", "9">>},
                      ds \in SeqsUpTo({<<"1", "0">>, <<"0", "1">>}, MaxDims) }

TupleTexts ==
  { <<"(">> \o a \o <<")">> : a \in TupleElements }
  \cup { MkTuple2(a, b) : a, b \in TupleElements }
  \cup { <<"(", "(">> \o a \o <<")", ")">> : a \in TupleElements }
  \cup { <<"(">> \o a \o <<",">> \o b \o <<")">> : a, b \in {MkArray(Tok(F32), One)} }
  \cup { <<"(", ")">>, <<"(">>, <<>> }

ShapeTexts == ArrayTexts \cup BrokenTexts \cup TupleTexts

ShapeInit ==
  /\ text \in ShapeTexts
  /\ fn = "none"
  /\ parsed = <<>>
  /\ formatted = <<>>
  /\ run = [v \in BOOLEAN |-> InitialRun]
  /\ nread = 0
  /\ accepted = <<>>
  /\ n_markers = 0
  /\ alloc_idx = <<>>

main_vars == <<run, nread, accepted, n_markers, alloc_idx>>

ParseArray ==
  /\ fn = "none"
  /\ fn' = "array"
  /\ parsed' = ArrayShapeFromString(text)
  /\ UNCHANGED <<text, formatted, main_vars>>

ParseTuple ==
  /\ fn = "none"
  /\ fn' = "tuple"
  /\ \E ub \in UBOutcomes : parsed' = TupleShapeFromString(text, ub)
  /\ UNCHANGED <<text, formatted, main_vars>>

FormatTuple ==
  /\ fn = "tuple"
  /\ parsed.st = "ok"
  /\ fn' = "tuple_str"
  /\ \E ub \in UBOutcomes : formatted' = TupleShapeToString(parsed.val, ub)
  /\ UNCHANGED <<text, parsed, main_vars>>

ShapeNext == ParseArray \/ ParseTuple \/ FormatTuple

ShapeSpec == ShapeInit /\ [][ShapeNext]_vars

(* ------------------------------ properties ----------------------------- *)

\* The two processes are at the same place: VERBOSE steers no branch but
\* those that write.
SamePlace == run[TRUE].pc = run[FALSE].pc

Terminal(st) == st.pc \in {"exit", "terminate", "crash", "done"}

\* ParseBufferAssignment has returned its assignment to main.
Returned(st) == st.pc = "table" \/ st.table # <<>>

LastErr(st) == IF st.cerr = <<>> THEN <<"", <<>>>> ELSE st.cerr[Len(st.cerr)]

\* The process ended in ExitWithMsg with this diagnostic.
ExitedWith(st, msg) == st.pc = "exit" /\ LastErr(st)[1] = msg

ValidIndex(st, i) == i \in 0..(Len(st.buffers_size) - 1)

\* The error kinds of the specification, as the diagnostics of the code.
InvalidShape == {"Tuple shape is not supported", "Shape not found"}
UnorderedAllocation == "Unordered allocations in input"
ShapeSizeMismatch == "Unexpected number of elements"
UnsupportedType == "Unsupported type: "
TupleParameter == "Parameters can not be tuples"

(* The grammar of shape texts, read off the text alone. *)

CanonicalTokens == {primitive_strings[i] : i \in 1..Len(primitive_strings)}

IsDecimal(tok) == tok # <<>> /\ \A i \in 1..Len(tok) : IsDigit(tok[i])

\* The value of a decimal token, -1 when it is above INT_MAX.
RECURSIVE DecimalValue(_, _)
DecimalValue(tok, acc) ==
  IF tok = <<>> THEN acc
  ELSE IF acc = -1 \/ acc > (IntMax - DigitVal(Head(tok))) \div 10 THEN -1
  ELSE DecimalValue(Tail(tok), acc * 10 + DigitVal(Head(tok)))

\* A decimal numeral as std::to_string writes it, of a value an int holds.
IsCanonicalDecimal(tok) ==
  IsDecimal(tok) /\ (Len(tok) = 1 \/ tok[1] # "0") /\ DecimalValue(tok, 0) # -1

\* The pieces of s between the delimiters d, empty pieces kept.
RECURSIVE SplitAll(_, _)
SplitAll(s, d) ==
  IF Find(s, d) = 0 THEN <<s>>
  ELSE <<SubSeq(s, 1, Find(s, d) - 1)>> \o SplitAll(SubSeq(s, Find(s, d) + 1, Len(s)), d)

HasArrayStructure(s) == Find(s, "[") >= 1 /\ Len(s) > Find(s, "[") /\ s[Len(s)] = "]"

TypeTokenOf(s) == SubSeq(s, 1, Find(s, "[") - 1)

DimTokensOf(s) ==
  IF Len(s) = Find(s, "[") + 1 THEN <<>>
  ELSE SplitAll(SubSeq(s, Find(s, "[") + 1, Len(s) - 1), ",")

\* TYPE "[" DIM ("," DIM)* "]" or TYPE "[]", TYPE one of the thirteen tokens.
IsArrayTextOf(s, DimOk(_)) ==
  /\ HasArrayStructure(s)
  /\ TypeTokenOf(s) \in CanonicalTokens
  /\ \A k \in 1..Len(DimTokensOf(s)) : DimOk(DimTokensOf(s)[k])

IsArrayText(s) == IsArrayTextOf(s, IsDecimal)

IsCanonicalArrayText(s) == IsArrayTextOf(s, IsCanonicalDecimal)

\* The element texts of "(" A ", " B ... ")"; <<>> when s has not that form.
TupleElementTexts(s) ==
  IF Len(s) < 3 \/ s[1] # "(" \/ s[Len(s)] # ")" THEN <<>>
  ELSE LET pieces == SplitAll(SubSeq(s, 2, Len(s) - 1), " ")
           n      == Len(pieces)
       IN  IF \E k \in 1..(n - 1) : pieces[k] = <<>> \/ pieces[k][Len(pieces[k])] # ","
           THEN <<>>
           ELSE [k \in 1..n |-> IF k < n THEN SubSeq(pieces[k], 1, Len(pieces[k]) - 1)
                                ELSE pieces[k]]

IsTupleTextOf(s, ElementOk(_)) ==
  /\ TupleElementTexts(s) # <<>>
  /\ \A k \in 1..Len(TupleElementTexts(s)) : ElementOk(TupleElementTexts(s)[k])

\* What the round trip is to give: the text, or for a tuple of one element
\* the element's text.
RoundTripOf(s) ==
  IF Len(TupleElementTexts(s)) = 1 THEN TupleElementTexts(s)[1] ELSE s

RoundTripHolds(ElementOk(_)) ==
  (IsTupleTextOf(text, ElementOk) \/ ElementOk(text)) =>
     /\ fn = "tuple" => parsed.st = "ok"
     /\ fn = "tuple_str" => formatted.st = "ok" /\ formatted.val = RoundTripOf(text)

(* What the lines of the file declare. *)

HasParameter(line) == line.pidx # <<>> /\ line.pshape # <<>>

\* a * b, or cap + 1 when the product is above cap.
MulCapped(a, b, cap) ==
  IF a = 0 \/ b = 0 THEN 0
  ELSE IF a > cap \/ b > cap \/ a > cap \div b THEN cap + 1
  ELSE a * b

RECURSIVE DeclaredCount(_, _, _)
DeclaredCount(dim_toks, acc, cap) ==
  IF dim_toks = <<>> THEN acc
  ELSE IF DecimalValue(Head(dim_toks), 0) = -1 THEN cap + 1
  ELSE DeclaredCount(Tail(dim_toks), MulCapped(acc, DecimalValue(Head(dim_toks), 0), cap), cap)

\* The byte width of a primitive type: the number in its token, over 8.
WidthOfToken(tok) ==
  CASE tok = Tok(U8) -> 1
    [] tok \in {Tok(S16), Tok(U16), Tok(F16), Tok(BF16)} -> 2
    [] tok \in {Tok(S32), Tok(U32), Tok(F32)} -> 4
    [] tok \in {Tok(S64), Tok(U64), Tok(F64), Tok(C64)} -> 8
    [] tok = Tok(C128) -> 16

\* The line declares a parameter of one array shape whose element count times
\* the width of its type is the size the line declares.
SizeConsistent(line) ==
  LET size == DecimalValue(line.size, 0) IN
  /\ size # -1
  /\ MulCapped(DeclaredCount(DimTokensOf(line.pshape), 1, size),
               WidthOfToken(TypeTokenOf(line.pshape)), size) = size

ArrayParameter(line) == HasParameter(line) /\ IsArrayText(line.pshape)

\* The array shape a line declares for its parameter.
DeclaredShape(line) == ArrayShapeFromString(line.pshape).val

FirstParameter ==
  IF \E a \in DOMAIN accepted : HasParameter(accepted[a])
  THEN CHOOSE a \in DOMAIN accepted :
         HasParameter(accepted[a]) /\ \A b \in 1..(a - 1) : ~HasParameter(accepted[b])
  ELSE 0

(* The claims. *)

\* C1: once ParseBufferAssignment has returned, output_idx and every entry of
\* params_idx are valid indices into buffers_size.
C1_IndicesValid ==
  \A v \in BOOLEAN :
    Returned(run[v]) =>
      /\ ValidIndex(run[v], run[v].output_idx)
      /\ \A i \in DOMAIN run[v].params_idx : ValidIndex(run[v], run[v].params_idx[i])

\* C2: when the entry point has been invoked, every allocation whose line has
\* a parameter marker (of a well-formed array shape) has had its own block
\* filled with the shape of that line, and every fill went to such a block.
C2_ParametersFilled ==
  \A v \in BOOLEAN :
    run[v].launched =>
      /\ \A a \in DOMAIN accepted :
           ArrayParameter(accepted[a]) =>
             \E i \in DOMAIN run[v].fills :
               /\ run[v].fills[i].index = a - 1
               /\ run[v].fills[i].shape = DeclaredShape(accepted[a])
      /\ \A i \in DOMAIN run[v].fills :
           /\ run[v].fills[i].index + 1 \in DOMAIN accepted
           /\ ArrayParameter(accepted[run[v].fills[i].index + 1])
           /\ run[v].fills[i].shape = DeclaredShape(accepted[run[v].fills[i].index + 1])

\* C3: once an allocation line has been read whose index is not the number of
\* allocation lines before it, the parse has failed with UnorderedAllocation;
\* so a parse that returns has read the indices 0, 1, 2, ... in order.
C3_OrderEnforced ==
  \A v \in BOOLEAN :
    (\E i \in DOMAIN alloc_idx : alloc_idx[i] # IntToString(i - 1)) =>
      ExitedWith(run[v], UnorderedAllocation)

\* C4: a parse that returns has read exactly one output marker.
C4_ExactlyOneOutput ==
  \A v \in BOOLEAN : Returned(run[v]) => n_markers = 1

\* C5: the entry point is invoked only if every parameter's element count
\* times the width of its type is the byte size its allocation declares.
C5_SizeMismatchStops ==
  \A v \in BOOLEAN :
    run[v].launched =>
      \A a \in DOMAIN accepted : ArrayParameter(accepted[a]) => SizeConsistent(accepted[a])

\* C6: the process with VERBOSE set and the process without it have written
\* the same to the standard output stream.
C6_SameStdout == run[TRUE].cout = run[FALSE].cout

\* C7: a run whose first parameter is declared F16, BF16, C64 or C128, with a
\* byte size consistent with its shape, ends with the UnsupportedType
\* diagnostic that names the type, the entry point not invoked.
C7_UnsupportedAborts ==
  \A v \in BOOLEAN :
    ( /\ Terminal(run[v])
      /\ Returned(run[v])
      /\ FirstParameter # 0
      /\ ArrayParameter(accepted[FirstParameter])
      /\ TypeTokenOf(accepted[FirstParameter].pshape) \in {Tok(F16), Tok(BF16), Tok(C64), Tok(C128)}
      /\ SizeConsistent(accepted[FirstParameter]) )
    => /\ ExitedWith(run[v], UnsupportedType)
       /\ LastErr(run[v])[2] = TypeTokenOf(accepted[FirstParameter].pshape)
       /\ ~run[v].launched

\* C8: ArrayShapeFromString fails with InvalidShape, and returns no shape, on
\* every text whose type token is not canonical, whose brackets do not match
\* TYPE[...], or one of whose dimension tokens is no decimal integer.
C8_InvalidShapeRejected ==
  (fn = "array" /\ ~IsArrayText(text)) => (parsed.st = "exit" /\ parsed.msg[1] \in InvalidShape)

\* C9 as stated: the round trip gives back every well-formed array text and
\* tuple text, DIM any decimal integer (the element's text for a tuple of one).
C9_RoundTrip == RoundTripHolds(IsArrayText)

\* C9 as amended: the same, for texts whose DIMs are decimal numerals without
\* leading zeros of values an int holds.
C9_RoundTripCanonical == RoundTripHolds(IsCanonicalArrayText)

\* A tuple text of two arrays, one of two dimensions, has made the round trip.
C9_Witness ==
  /\ fn = "tuple_str"
  /\ IsTupleTextOf(text, IsCanonicalArrayText)
  /\ Len(TupleElementTexts(text)) = 2
  /\ Len(DimTokensOf(TupleElementTexts(text)[1])) = 2
  /\ formatted.val = text

\* C10: every call of FillIntT / FillFloatT in main writes to a block of the
\* table, and no more bytes than the block has; an entry of params_idx that
\* is out of range or has no shape stops the run at the Check of line 448.
C10_FillSafe ==
  \A v \in BOOLEAN :
    /\ \A i \in DOMAIN run[v].fills :
         /\ ValidIndex(run[v], run[v].fills[i].index)
         /\ \/ run[v].fills[i].count <= 0
            \/ run[v].fills[i].count <=
                 run[v].buffers_size[run[v].fills[i].index + 1] \div run[v].fills[i].width
    /\ \A j \in DOMAIN run[v].params_idx :
         LET p == run[v].params_idx[j]
             unusable == ~ValidIndex(run[v], p) \/ MapGet(run[v].buffers_shape, p).elements = <<>>
         IN  /\ j < run[v].param_pos => ~unusable
             /\ (j = run[v].param_pos /\ run[v].table # <<>> /\ Terminal(run[v]) /\ unusable) =>
                  ExitedWith(run[v], TupleParameter)

\* A parameter was filled to the last byte of its block, and the entry point
\* was invoked.
C10_Witness ==
  /\ run[FALSE].launched
  /\ \E i \in DOMAIN run[FALSE].fills :
       /\ run[FALSE].fills[i].count >= 1
       /\ run[FALSE].fills[i].count * run[FALSE].fills[i].width =
            run[FALSE].buffers_size[run[FALSE].fills[i].index + 1]

====
